---- MODULE Spec2Model ----
(***************************************************************************)
(* A model of SLRE (src/slre.c): slre_match = foo (pattern analysis,       *)
(* setup_branch_points, anchor loop) over doh (branch dispatcher) and bar  *)
(* (atom sequencer).  Patterns and subjects are sequences of one-character *)
(* strings; a C pointer into the pattern or the subject is its 0-based     *)
(* offset from the start of that string.                                   *)
(***************************************************************************)
EXTENDS Integers, Sequences, FiniteSets, TLC

VARIABLES
  re,          \* regexp, the pattern handed to slre_match
  s,           \* the subject; s_len is Len(s)
  caps_given,  \* caps != NULL
  info,        \* struct regex_info of the call
  caps,        \* the caller's capture slots written so far: slot -> [ptr, len]
  dispatched,  \* history: [at, bi, ptr, n] for every "(" at pattern offset at that bar handed
               \* to doh as bracket bi, against the subject from offset ptr, with doh's result n
  pc,          \* where the call stands
  anchor,      \* i of foo's loop over the subject, lines 321-329
  attempts,    \* history: [at, n] for every anchor at tried, with doh's result n
  result,      \* foo's result
  error_msg    \* the caller's *error_msg

vars == <<re, s, caps_given, info, caps, dispatched, pc, anchor, attempts, result, error_msg>>

(***************************************************************************)
(* Program constants.                                                      *)
(***************************************************************************)
MAX_BRANCHES == 100
MAX_BRACKETS == 100

static_error_no_match == "No match"
static_error_unexpected_quantifier == "Unexpected quantifier"
static_error_unbalanced_brackets == "Unbalanced brackets"
static_error_internal == "Internal error"
static_error_invalid_metacharacter == "Invalid metacharacter"
error_too_many_branches == "Too many |. Increase MAX_BRANCHES"
error_too_many_brackets == "Too many (. Increase MAX_BRACKETS"

\* The terminating byte of a C string.
NUL == "NUL"

\* re[k] for a 0-based offset k into the nul-terminated pattern.
ReAt(p, k) == IF k >= 0 /\ k < Len(p) THEN p[k + 1] ELSE NUL

\* s[k] for a 0-based offset k into the subject.
SAt(t, k) == t[k + 1]

\* isspace in the C locale (the vertical tab has no TLA+ escape and is no subject byte here).
isspace(c) == c \in {" ", "\t", "\n", "\r", "\f"}
isdigit(c) == c \in {"0", "1", "2", "3", "4", "5", "6", "7", "8", "9"}

get_op_len(p, k) == IF ReAt(p, k) = "\\" THEN 2 ELSE 1

\* is_quantifier with the "?" case of line 81 left out.
is_quantifier_without_optional(p, k) == ReAt(p, k) \in {"*", "+"}

is_quantifier(p, k) == ReAt(p, k) \in {"*", "+", "?"}

(***************************************************************************)
(* struct regex_info.  brackets and branches are 0-based arrays, kept as   *)
(* functions on 0..num-1; only the slots the code has written exist.       *)
(* A bracket's branches / num_branches fields hold Uninit until            *)
(* setup_branch_points writes them.                                        *)
(***************************************************************************)
Uninit == "uninit"

InfoInit ==
  [brackets |-> <<>>, num_brackets |-> 0,
   branches |-> <<>>, num_branches |-> 0,
   error_msg |-> static_error_no_match, flags |-> 0]

\* 0-based array read / write on a sequence.
Arr(a, k) == a[k + 1]
ArrSet(a, k, v) == IF k = Len(a) THEN Append(a, v) ELSE [a EXCEPT ![k + 1] = v]

(***************************************************************************)
(* foo, lines 276-315: the single pass over the pattern.  The result is    *)
(* [ok, info]; ok = FALSE is a FAIL_IF that made foo return 0.             *)
(***************************************************************************)
LastOpen(inf) == Arr(inf.brackets, inf.num_brackets - 1).len = -1

RECURSIVE scan(_, _, _, _)
scan(p, i, inf, depth) ==
  IF ~(i < Len(p))
  THEN IF depth # 0
       THEN [ok |-> FALSE, info |-> [inf EXCEPT !.error_msg = static_error_unbalanced_brackets]]
       ELSE [ok |-> TRUE, info |-> inf]
  ELSE
    LET step == get_op_len(p, i)
        c == ReAt(p, i)
    IN
    IF c = "|"
    THEN IF inf.num_branches >= MAX_BRANCHES
         THEN [ok |-> FALSE, info |-> [inf EXCEPT !.error_msg = error_too_many_branches]]
         ELSE
           LET br == [bracket_index |-> IF LastOpen(inf) THEN inf.num_brackets - 1 ELSE depth,
                      schlong |-> i]
           IN scan(p, i + step,
                   [inf EXCEPT !.branches = ArrSet(@, inf.num_branches, br),
                               !.num_branches = @ + 1],
                   depth)
    ELSE IF c = "("
    THEN IF inf.num_brackets >= MAX_BRACKETS
         THEN [ok |-> FALSE, info |-> [inf EXCEPT !.error_msg = error_too_many_brackets]]
         ELSE
           LET b == [ptr |-> i + 1, len |-> -1, branches |-> Uninit, num_branches |-> Uninit]
           IN scan(p, i + step,
                   [inf EXCEPT !.brackets = ArrSet(@, inf.num_brackets, b),
                               !.num_brackets = @ + 1],
                   depth + 1)
    ELSE IF c = ")"
    THEN
      LET ind == IF LastOpen(inf) THEN inf.num_brackets - 1 ELSE depth
          inf1 == [inf EXCEPT !.brackets[ind + 1].len = i - Arr(inf.brackets, ind).ptr]
      IN
      IF depth - 1 < 0
      THEN [ok |-> FALSE, info |-> [inf1 EXCEPT !.error_msg = static_error_unbalanced_brackets]]
      ELSE IF i > 0 /\ ReAt(p, i - 1) = "("
      THEN [ok |-> FALSE, info |-> [inf1 EXCEPT !.error_msg = static_error_no_match]]
      ELSE scan(p, i + step, inf1, depth - 1)
    ELSE scan(p, i + step, inf, depth)

\* foo, lines 279-281 then the scan.
analyze(p, inf) ==
  scan(p, 0,
       [inf EXCEPT !.brackets = <<[ptr |-> 0, len |-> Len(p),
                                   branches |-> Uninit, num_branches |-> Uninit]>>,
                   !.num_brackets = 1],
       0)

(***************************************************************************)
(* setup_branch_points.                                                    *)
(***************************************************************************)
\* lines 247-255: the exchange sort, one inner-loop step at a time.
RECURSIVE sort_branches(_, _, _, _)
sort_branches(br, n, i, j) ==
  IF ~(i < n) THEN br
  ELSE IF ~(j < n) THEN sort_branches(br, n, i + 1, i + 2)
  ELSE IF Arr(br, i).bracket_index > Arr(br, j).bracket_index
       THEN sort_branches([br EXCEPT ![i + 1] = Arr(br, j), ![j + 1] = Arr(br, i)], n, i, j + 1)
       ELSE sort_branches(br, n, i, j + 1)

\* lines 264-267: the while loop that counts bracket i's branches from cursor j.
RECURSIVE count_branches(_, _, _, _)
count_branches(br, n, i, j) ==
  IF j < n /\ Arr(br, j).bracket_index = i THEN 1 + count_branches(br, n, i, j + 1) ELSE 0

\* lines 261-268.
RECURSIVE set_branch_points(_, _, _, _)
set_branch_points(bk, inf, i, j) ==
  IF ~(i < inf.num_brackets) THEN bk
  ELSE
    LET k == count_branches(inf.branches, inf.num_branches, i, j)
    IN set_branch_points([bk EXCEPT ![i + 1].num_branches = k, ![i + 1].branches = j],
                         inf, i + 1, j + k)

setup_branch_points(inf) ==
  LET sorted == [inf EXCEPT !.branches = sort_branches(inf.branches, inf.num_branches, 0, 1)]
  IN [sorted EXCEPT !.brackets = set_branch_points(sorted.brackets, sorted, 0, 0)]

(***************************************************************************)
(* The matcher.  m = [re, s, info, caps_given] is what a call reads and    *)
(* never changes; st = [caps, error_msg, dispatched] is what it writes     *)
(* through its pointers: the caller's capture slots (a function on the     *)
(* slots written so far), info->error_msg, and the history of which        *)
(* bracket each "(" dispatched.                                            *)
(* rp and sp are the offsets of the C pointers re and s handed to the      *)
(* call; i and j are the code's offsets relative to them.  A call returns  *)
(* [n, st]: the int it returns and what it has written.                    *)
(***************************************************************************)
FAIL(st, msg) == [n |-> 0, st |-> [st EXCEPT !.error_msg = msg]]

\* lines 180-183: caps[bi - 1] = (s + j, n), when a capture array was passed.
set_cap(m, st, bi, ptr, n) ==
  IF m.caps_given
  THEN [st EXCEPT !.caps = ((bi - 1) :> [ptr |-> ptr, len |-> n]) @@ @]
  ELSE st

\* lines 216-219: the "$" check after the loop, and the return of j.
bar_end(m, rp, re_len, st, i, j) ==
  IF i < re_len /\ ~(ReAt(m.re, rp + i) = "$" /\ i + 1 = re_len)
  THEN FAIL(st, static_error_no_match)
  ELSE [n |-> j, st |-> st]

RECURSIVE bar_loop(_, _, _, _, _, _, _, _, _)
RECURSIVE quant_loop(_, _, _, _, _, _, _, _, _, _, _, _, _)
RECURSIVE doh_loop(_, _, _, _, _, _)

\* bar, lines 87-220.
bar(m, rp, re_len, sp, s_len, st, bi) == bar_loop(m, rp, re_len, sp, s_len, st, bi, 0, 0)

\* doh, lines 223-240.
doh(m, sp, s_len, st, bi) == doh_loop(m, sp, s_len, st, bi, 0)

\* lines 229-236: one iteration of the do-while, for alternative i.
doh_loop(m, sp, s_len, st, bi, i) ==
  LET b == Arr(m.info.brackets, bi)
      p == IF i = 0 THEN b.ptr ELSE Arr(m.info.branches, b.branches + i - 1).schlong + 1
      len == IF b.num_branches = 0 THEN b.len
             ELSE IF i = b.num_branches THEN b.ptr + b.len - p
             ELSE Arr(m.info.branches, b.branches + i).schlong - p
      r == bar(m, p, len, sp, s_len, st, bi)
  IN IF i < b.num_branches THEN doh_loop(m, sp, s_len, r.st, bi, i + 1) ELSE r

\* lines 123-136: the while loop of a "+" or "*" quantifier, entered with the
\* current j2 and nj, and the exit at lines 135-136.
quant_loop(m, rp, re_len, sp, s_len, bi, i, step, ni, non_greedy, j2, nj, st) ==
  LET r1 == bar(m, rp + i, step, sp + j2, s_len - j2, st, bi)
      n1 == r1.n
  IN
  IF n1 > 0
  THEN
    LET tail == ni < re_len
        r2 == bar(m, rp + ni, re_len - ni, sp + j2 + n1, s_len - (j2 + n1), r1.st, bi)
        nj1 == IF ~tail THEN j2 + n1
               ELSE IF r2.n > 0 THEN j2 + n1 + r2.n
               ELSE nj
        st1 == IF tail THEN r2.st ELSE r1.st
    IN
    IF nj1 > 0 /\ non_greedy
    THEN [n |-> nj1, st |-> st1]
    ELSE quant_loop(m, rp, re_len, sp, s_len, bi, i, step, ni, non_greedy, j2 + n1, nj1, st1)
  ELSE
    IF ReAt(m.re, rp + i + step) = "+" /\ nj = 0
    THEN FAIL(r1.st, static_error_no_match)
    ELSE [n |-> nj, st |-> r1.st]

\* lines 96-210: the for loop from offsets i (pattern) and j (subject) on.
bar_loop(m, rp, re_len, sp, s_len, st, bi, i, j) ==
  IF ~(i < re_len /\ j < s_len)
  THEN bar_end(m, rp, re_len, st, i, j)
  ELSE
    LET step == get_op_len(m.re, rp + i)
        c == ReAt(m.re, rp + i)
        sj == SAt(m.s, sp + j)
    IN
    IF is_quantifier(m.re, rp + i)
    THEN FAIL(st, static_error_unexpected_quantifier)
    ELSE IF i + step < re_len /\ is_quantifier(m.re, rp + i + step)
    THEN
      IF ReAt(m.re, rp + i + step) = "?"
      THEN
        LET r == bar(m, rp + i, step, sp + j, s_len - j, st, bi)
        IN bar_loop(m, rp, re_len, sp, s_len, r.st, bi, i + 1 + step, j + r.n)
      ELSE
        LET non_greedy == i + step + 1 < re_len /\ ReAt(m.re, rp + i + step + 1) = "?"
            next_step == get_op_len(m.re, rp + i + step) + (IF non_greedy THEN 1 ELSE 0)
            ni == i + step + next_step
        IN quant_loop(m, rp, re_len, sp, s_len, bi, i, step, ni, non_greedy, j, 0, st)
    ELSE IF c = "\\"
    THEN
      LET e == ReAt(m.re, rp + i + 1)
      IN
      IF e = "S"
      THEN IF isspace(sj) THEN FAIL(st, static_error_no_match)
           ELSE bar_loop(m, rp, re_len, sp, s_len, st, bi, i + step, j + 1)
      ELSE IF e = "s"
      THEN IF ~isspace(sj) THEN FAIL(st, static_error_no_match)
           ELSE bar_loop(m, rp, re_len, sp, s_len, st, bi, i + step, j + 1)
      ELSE IF e = "d"
      THEN IF ~isdigit(sj) THEN FAIL(st, static_error_no_match)
           ELSE bar_loop(m, rp, re_len, sp, s_len, st, bi, i + step, j + 1)
      ELSE IF e \in {"+", "?", "*", "\\", "(", ")", "^", "$", ".", "[", "]"}
      THEN IF e # sj THEN FAIL(st, static_error_no_match)
           ELSE bar_loop(m, rp, re_len, sp, s_len, st, bi, i + step, j + 1)
      ELSE FAIL(st, static_error_invalid_metacharacter)
    ELSE IF c = "("
    THEN
      LET bi1 == bi + 1
      IN
      IF bi1 >= m.info.num_brackets
      THEN FAIL(st, static_error_internal)
      ELSE
        LET r0 == doh(m, sp + j, s_len - j, st, bi1)
            ev == [at |-> rp + i, bi |-> bi1, ptr |-> sp + j, n |-> r0.n]
            r == [n |-> r0.n, st |-> [r0.st EXCEPT !.dispatched = @ \cup {ev}]]
        IN
        IF r.n <= 0
        THEN FAIL(r.st, static_error_no_match)
        ELSE bar_loop(m, rp, re_len, sp, s_len, set_cap(m, r.st, bi1, sp + j, r.n), bi1,
                      i + Arr(m.info.brackets, bi1).len + 1 + step, j + r.n)
    ELSE IF c = "^"
    THEN IF j # 0 THEN FAIL(st, static_error_no_match)
         ELSE bar_loop(m, rp, re_len, sp, s_len, st, bi, i + step, j)
    ELSE IF c = "|"
    THEN FAIL(st, static_error_internal)
    ELSE IF c = "$"
    THEN FAIL(st, static_error_no_match)
    ELSE IF c = "."
    THEN bar_loop(m, rp, re_len, sp, s_len, st, bi, i + step, j + 1)
    ELSE IF c # sj THEN FAIL(st, static_error_no_match)
         ELSE bar_loop(m, rp, re_len, sp, s_len, st, bi, i + step, j + 1)

(***************************************************************************)
(* The inputs: every pattern of at most MaxReLen bytes over Alphabet and   *)
(* the patterns of LongPatterns, against every subject of at most MaxSLen  *)
(* bytes over SubjectBytes, with and without a capture array; and the      *)
(* calls of the unit test, main lines 405-472, with the value each ASSERT  *)
(* expects.                                                                *)
(***************************************************************************)
MaxReLen == 3
MaxSLen == 4

Alphabet == {"a", "b", ".", "(", ")", "|", "+", "*", "?", "^", "$", "\\", "_"}
SubjectBytes == {"a", "b"}

Strings(A, n) == UNION {[1..k -> A] : k \in 0..n}

\* Patterns longer than MaxReLen: nested and sibling groups, alternation in
\* and around groups, groups and optional atoms after a quantifier.
LongPatterns == {
  <<"(", "(", "a", ")", ")", "(", "b", ")">>,
  <<"(", "a", ")", "(", "(", "b", ")", ")">>,
  <<"(", "a", ")", "(", "b", "(", "c", ")", "d", ")">>,
  <<"(", "x", "(", "a", "|", "b", "|", "c", ")", "|", "y", ")">>,
  <<"(", "a", "|", "b", "|", "c", ")", "|", "d">>,
  <<".", "+", "(", "b", ")", "a">>,
  <<"(", "a", "a", ")", "|", "a">>,
  <<"a", "+", "b", "?">>,
  <<"(", "a", "b", ")", "|", "(", "a", ")", "$">>,
  <<"(", "a", ")", "|", "(", "b", ")">>,
  <<"a", "(", "^", "b", ")">>,
  <<"a", "+", "^", "b">>,
  <<"a", "\\", "_", "b">>,
  <<"\\", "_", "|", "a">>,
  <<"\\", "_", "?", "a">>
}

Patterns == Strings(Alphabet, MaxReLen) \cup LongPatterns
Subjects == Strings(SubjectBytes, MaxSLen)

UnitTests == {
  [re |-> <<"f", "o">>,
   s |-> <<"f", "o", "o">>, caps_given |-> FALSE, expect |-> 2],
  [re |-> <<".", "+">>,
   s |-> <<"f", "o", "o">>, caps_given |-> FALSE, expect |-> 3],
  [re |-> <<".", "+", "k">>,
   s |-> <<"f", "o", "o", "k", "l", "m", "n">>, caps_given |-> FALSE, expect |-> 4],
  [re |-> <<".", "+", "k", ".">>,
   s |-> <<"f", "o", "o", "k", "l", "m", "n">>, caps_given |-> FALSE, expect |-> 5],
  [re |-> <<"p", "+">>,
   s |-> <<"f", "o", "o", "k", "l", "m", "n">>, caps_given |-> FALSE, expect |-> 0],
  [re |-> <<"o", "k">>,
   s |-> <<"f", "o", "o", "k", "l", "m", "n">>, caps_given |-> FALSE, expect |-> 4],
  [re |-> <<"l", "m", "n", "o">>,
   s |-> <<"f", "o", "o", "k", "l", "m", "n">>, caps_given |-> FALSE, expect |-> 0],
  [re |-> <<"m", "n", ".">>,
   s |-> <<"f", "o", "o", "k", "l", "m", "n">>, caps_given |-> FALSE, expect |-> 0],
  [re |-> <<"o">>,
   s |-> <<"f", "o", "o", "k", "l", "m", "n">>, caps_given |-> FALSE, expect |-> 2],
  [re |-> <<"^", "o">>,
   s |-> <<"f", "o", "o", "k", "l", "m", "n">>, caps_given |-> FALSE, expect |-> 0],
  [re |-> <<"^">>,
   s |-> <<"f", "o", "o", "k", "l", "m", "n">>, caps_given |-> FALSE, expect |-> 0],
  [re |-> <<"n", "$">>,
   s |-> <<"f", "o", "o", "k", "l", "m", "n">>, caps_given |-> FALSE, expect |-> 7],
  [re |-> <<"n", "$", "k">>,
   s |-> <<"f", "o", "o", "k", "l", "m", "n">>, caps_given |-> FALSE, expect |-> 0],
  [re |-> <<"l", "$">>,
   s |-> <<"f", "o", "o", "k", "l", "m", "n">>, caps_given |-> FALSE, expect |-> 0],
  [re |-> <<".", "$">>,
   s |-> <<"f", "o", "o", "k", "l", "m", "n">>, caps_given |-> FALSE, expect |-> 7],
  [re |-> <<"a", "?">>,
   s |-> <<"f", "o", "o", "k", "l", "m", "n">>, caps_given |-> FALSE, expect |-> 0],
  [re |-> <<"\\", "_">>,
   s |-> <<"f", "o", "o", "k", "l", "m", "n">>, caps_given |-> FALSE, expect |-> 0],
  [re |-> <<"+">>,
   s |-> <<"f", "o", "o", "k", "l", "m", "n">>, caps_given |-> FALSE, expect |-> 0],
  [re |-> <<"(", ")", "+">>,
   s |-> <<"f", "o", "o", "k", "l", "m", "n">>, caps_given |-> FALSE, expect |-> 0],
  [re |-> <<"(", "x", ")", ")">>,
   s |-> <<"f", "o", "o", "k", "l", "m", "n">>, caps_given |-> FALSE, expect |-> 0],
  [re |-> <<"(">>,
   s |-> <<"f", "o", "o", "k", "l", "m", "n">>, caps_given |-> FALSE, expect |-> 0],
  [re |-> <<"k", "l", "z", "?", "m", "n">>,
   s |-> <<"f", "o", "o", "k", "l", "m", "n">>, caps_given |-> FALSE, expect |-> 7],
  [re |-> <<"f", "a", "?", "b">>,
   s |-> <<"f", "o", "o", "k", "l", "m", "n">>, caps_given |-> FALSE, expect |-> 0],
  [re |-> <<"^", "(", "t", "e", ")">>,
   s |-> <<"t", "e", "n", "a", "c", "i", "t", "y", " ", "s", "u", "b", "d", "u", "e", "s", " ", "a", "l", "l">>, caps_given |-> TRUE, expect |-> 2],
  [re |-> <<"(", "b", "c", ")">>,
   s |-> <<"a", "b", "c", "d", "e", "f">>, caps_given |-> TRUE, expect |-> 3],
  [re |-> <<".", "(", "d", ".", ")">>,
   s |-> <<"a", "b", "c", "d", "e", "f">>, caps_given |-> TRUE, expect |-> 5],
  [re |-> <<".", "(", "d", ".", ")", "\\", ")", "?">>,
   s |-> <<"a", "b", "c", "d", "e", "f">>, caps_given |-> TRUE, expect |-> 5],
  [re |-> <<"(", ".", "+", ")">>,
   s |-> <<"1", "2", "3">>, caps_given |-> TRUE, expect |-> 3],
  [re |-> <<"(", "2", ".", "+", ")">>,
   s |-> <<"1", "2", "3">>, caps_given |-> TRUE, expect |-> 3],
  [re |-> <<"(", ".", "+", "2", ")">>,
   s |-> <<"1", "2", "3">>, caps_given |-> TRUE, expect |-> 2],
  [re |-> <<"(", ".", "*", "(", "2", ".", ")", ")">>,
   s |-> <<"1", "2", "3">>, caps_given |-> TRUE, expect |-> 3],
  [re |-> <<"(", ".", ")", "(", ".", ")">>,
   s |-> <<"1", "2", "3">>, caps_given |-> TRUE, expect |-> 2],
  [re |-> <<"(", "\\", "d", "+", ")", "\\", "s", "+", "(", "\\", "S", "+", ")">>,
   s |-> <<"1", "2", " ", "h", "i">>, caps_given |-> TRUE, expect |-> 5],
  [re |-> <<".", "+", "c">>,
   s |-> <<"a", "b", "c", "a", "b", "c">>, caps_given |-> FALSE, expect |-> 6],
  [re |-> <<".", "+", "?", "c">>,
   s |-> <<"a", "b", "c", "a", "b", "c">>, caps_given |-> FALSE, expect |-> 3],
  [re |-> <<".", "*", "?", "c">>,
   s |-> <<"a", "b", "c", "a", "b", "c">>, caps_given |-> FALSE, expect |-> 3],
  [re |-> <<".", "*", "c">>,
   s |-> <<"a", "b", "c", "a", "b", "c">>, caps_given |-> FALSE, expect |-> 6],
  [re |-> <<"b", "c", ".", "d", "?", "k", "?", "b", "+">>,
   s |-> <<"a", "b", "c", "a", "b", "c">>, caps_given |-> FALSE, expect |-> 5],
  [re |-> <<"|">>,
   s |-> <<"a", "b", "c">>, caps_given |-> FALSE, expect |-> 0],
  [re |-> <<"|", ".">>,
   s |-> <<"a", "b", "c">>, caps_given |-> FALSE, expect |-> 1],
  [re |-> <<"x", "|", "y", "|", "b">>,
   s |-> <<"a", "b", "c">>, caps_given |-> FALSE, expect |-> 2],
  [re |-> <<"k", "(", "x", "x", "|", "y", "y", ")", "|", "c", "a">>,
   s |-> <<"a", "b", "c", "a", "b", "c">>, caps_given |-> FALSE, expect |-> 4],
  [re |-> <<"k", "(", "x", "x", "|", "y", "y", ")", "|", "c", "a", "|", "b", "c">>,
   s |-> <<"a", "b", "c", "a", "b", "c">>, caps_given |-> FALSE, expect |-> 3],
  [re |-> <<"(", "|", ".", "c", ")">>,
   s |-> <<"a", "b", "c">>, caps_given |-> TRUE, expect |-> 3]
}

Inputs ==
  [re : Patterns, s : Subjects, caps_given : BOOLEAN]
    \cup {[re |-> u.re, s |-> u.s, caps_given |-> u.caps_given] : u \in UnitTests}

(***************************************************************************)
(* slre_match as a state machine: Init is the state after lines 340-341,   *)
(* then foo's analysis, setup_branch_points, one step per anchor of foo's  *)
(* loop over the subject, and the return through slre_match.               *)
(***************************************************************************)
Init ==
  /\ \E x \in Inputs : re = x.re /\ s = x.s /\ caps_given = x.caps_given
  /\ info = InfoInit
  /\ caps = <<>>
  /\ dispatched = {}
  /\ pc = "analyze"
  /\ anchor = Uninit
  /\ attempts = <<>>
  /\ result = Uninit
  /\ error_msg = Uninit

\* foo, lines 276-315.
Analyze ==
  /\ pc = "analyze"
  /\ LET r == analyze(re, info)
     IN /\ info' = r.info
        /\ pc' = IF r.ok THEN "setup" ELSE "return"
        /\ result' = IF r.ok THEN result ELSE 0
  /\ UNCHANGED <<re, s, caps_given, caps, dispatched, anchor, attempts, error_msg>>

\* foo, lines 317-321: setup_branch_points(info); result = 0; i = 0.
SetupBranchPoints ==
  /\ pc = "setup"
  /\ info' = setup_branch_points(info)
  /\ result' = 0
  /\ anchor' = 0
  /\ pc' = "match"
  /\ UNCHANGED <<re, s, caps_given, caps, dispatched, attempts, error_msg>>

\* foo, lines 321-329: one iteration of the loop over the subject.
MatchAnchor ==
  /\ pc = "match"
  /\ anchor < Len(s)
  /\ LET m == [re |-> re, s |-> s, info |-> info, caps_given |-> caps_given]
         st == [caps |-> caps, error_msg |-> info.error_msg, dispatched |-> dispatched]
         r == doh(m, anchor, Len(s) - anchor, st, 0)
     IN /\ caps' = r.st.caps
        /\ info' = [info EXCEPT !.error_msg = r.st.error_msg]
        /\ dispatched' = r.st.dispatched
        /\ attempts' = Append(attempts, [at |-> anchor, n |-> r.n])
        /\ IF r.n > 0 \/ ReAt(re, 0) = "^"
           THEN /\ result' = r.n + anchor
                /\ pc' = "return"
                /\ anchor' = anchor
           ELSE /\ result' = r.n
                /\ pc' = "match"
                /\ anchor' = anchor + 1
  /\ UNCHANGED <<re, s, caps_given, error_msg>>

\* foo, line 321: the loop ends with the subject exhausted.
SubjectExhausted ==
  /\ pc = "match"
  /\ ~(anchor < Len(s))
  /\ pc' = "return"
  /\ UNCHANGED <<re, s, caps_given, info, caps, dispatched, anchor, attempts, result, error_msg>>

\* slre_match, lines 346-350.
Return ==
  /\ pc = "return"
  /\ error_msg' = info.error_msg
  /\ pc' = "done"
  /\ UNCHANGED <<re, s, caps_given, info, caps, dispatched, anchor, attempts, result>>

Next == Analyze \/ SetupBranchPoints \/ MatchAnchor \/ SubjectExhausted \/ Return

Spec == Init /\ [][Next]_vars

(***************************************************************************)
(* The calls for the error reasons: every pattern against every subject of *)
(* at most MaxSyntaxSLen bytes, without a capture array.                   *)
(***************************************************************************)
MaxSyntaxSLen == 2

SyntaxInit ==
  /\ re \in Patterns
  /\ s \in Strings(SubjectBytes, MaxSyntaxSLen)
  /\ caps_given = FALSE
  /\ info = InfoInit
  /\ caps = <<>>
  /\ dispatched = {}
  /\ pc = "analyze"
  /\ anchor = Uninit
  /\ attempts = <<>>
  /\ result = Uninit
  /\ error_msg = Uninit

SyntaxSpec == SyntaxInit /\ [][Next]_vars

\* main, lines 405-472: every ASSERT on slre_match's return value holds.
UnitTestsPass ==
  pc = "done" =>
    \A u \in UnitTests :
      (re = u.re /\ s = u.s /\ caps_given = u.caps_given) => result = u.expect

(***************************************************************************)
(* What the pattern text says, read without the analyzer's tables: the     *)
(* unescaped bytes, the parenthesis each ")" closes, the depth of a byte.  *)
(***************************************************************************)
\* The offsets at which an atom starts when the pattern is read from offset
\* i in steps of get_op_len: the bytes that are not the second byte of an escape.
RECURSIVE AtomStarts(_, _)
AtomStarts(p, i) == IF i >= Len(p) THEN {} ELSE {i} \cup AtomStarts(p, i + get_op_len(p, i))

Unescaped(p, c) == {i \in AtomStarts(p, 0) : ReAt(p, i) = c}

\* The number of the group that opens at offset off: 1 for the first "(".
GroupNumber(p, off) == Cardinality({i \in Unescaped(p, "(") : i <= off})

\* The number of parentheses open around the byte at offset off.
Depth(p, off) ==
  Cardinality({i \in Unescaped(p, "(") : i < off})
    - Cardinality({i \in Unescaped(p, ")") : i < off})

\* The ")" that closes the "(" at offset open: the first one after it at which
\* the depth is back to the depth around the "(".
CloseOf(p, open) ==
  LET later == {i \in Unescaped(p, ")") : i > open /\ Depth(p, i) = Depth(p, open) + 1}
  IN CHOOSE i \in later : \A k \in later : i <= k

\* foo's pass over the pattern raises no error.
PassesAnalysis(p) == analyze(p, InfoInit).ok

AnalysisPassed == pc # "analyze" /\ PassesAnalysis(re)

BranchesResolved == pc \in {"match", "return", "done"} /\ PassesAnalysis(re)

(***************************************************************************)
(* C1.  Group numbering follows the order of the opening parentheses: the  *)
(* k-th unescaped "(" of the pattern is dispatched as bracket pair k, and  *)
(* with a capture array every slot k-1 written holds a match that the k-th *)
(* "(" produced.                                                           *)
(***************************************************************************)
\* C1: every "(" is dispatched as the bracket of its rank among the "(", and every
\* capture slot written holds a match of the group with that rank.
C1_GroupNumbering ==
  /\ \A d \in dispatched : d.bi = GroupNumber(re, d.at)
  /\ \A k \in DOMAIN caps :
       \E d \in dispatched :
         /\ GroupNumber(re, d.at) = k + 1
         /\ d.n > 0
         /\ caps[k] = [ptr |-> d.ptr, len |-> d.n]

(***************************************************************************)
(* C2.  After a positive result r for a match that started at anchor a,    *)
(* every capture slot written lies inside the reported match: its start is *)
(* >= a and its start + len is <= r.                                       *)
(***************************************************************************)
\* C2: after a positive result every capture slot written lies inside [anchor, result].
C2_CapturesInsideMatch ==
  (pc = "done" /\ result > 0) =>
    \A k \in DOMAIN caps : caps[k].ptr >= anchor /\ caps[k].ptr + caps[k].len <= result

(***************************************************************************)
(* C5.  "^" succeeds only at subject offset 0, wherever it stands in the   *)
(* pattern.  A pattern that begins with "^" matches only from offset 0;    *)
(* and a pattern in which every atom is mandatory (no "|", "?" or "*") and *)
(* a "^" stands after an atom that consumes a subject byte, in a group or  *)
(* in the tail of a "+", evaluates that "^" at an offset > 0 in every      *)
(* attempt, so it has no positive result.                                  *)
(***************************************************************************)
AllAtomsMandatory(p) ==
  Unescaped(p, "|") = {} /\ Unescaped(p, "?") = {} /\ Unescaped(p, "*") = {}

CaretAfterBytes(p) ==
  \E i \in Unescaped(p, "^") :
    \E k \in AtomStarts(p, 0) : k < i /\ ReAt(p, k) \notin {"(", ")", "^", "$"}

\* C5: a positive result of a pattern that begins with "^" starts at offset 0, and a
\* pattern that must evaluate "^" after consuming a byte has no positive result.
C5_CaretOnlyAtStart ==
  (pc = "done" /\ result > 0) =>
    /\ ReAt(re, 0) = "^" => anchor = 0
    /\ ~(AllAtomsMandatory(re) /\ CaretAfterBytes(re))

(***************************************************************************)
(* C6.  For a pattern whose last byte is an unescaped "$", a positive      *)
(* result is the length of the subject.                                    *)
(***************************************************************************)
EndsWithDollar(p) == Len(p) > 0 /\ (Len(p) - 1) \in Unescaped(p, "$")

\* C6: a positive result of a pattern that ends with an unescaped "$" is Len(s).
C6_DollarEndsAtSubjectEnd ==
  (pc = "done" /\ EndsWithDollar(re) /\ result > 0) => result = Len(s)

(***************************************************************************)
(* C8.  For a pattern that passes analysis, every bracket pair k >= 1 has  *)
(* len >= 0 and len is the number of pattern bytes between the k-th "("    *)
(* and the ")" that closes it.                                             *)
(***************************************************************************)
\* C8: after the analysis every bracket k >= 1 has len >= 0, the number of bytes
\* between its "(" and the ")" that closes it.
C8_BracketLen ==
  AnalysisPassed =>
    \A k \in 1..(info.num_brackets - 1) :
      LET b == Arr(info.brackets, k)
      IN /\ b.len >= 0
         /\ b.len = CloseOf(re, b.ptr - 1) - b.ptr

(***************************************************************************)
(* C9.  After setup_branch_points the branch list is in nondecreasing      *)
(* order of bracket_index, and the branches of one bracket keep their      *)
(* pattern order: their offsets increase.                                  *)
(***************************************************************************)
\* C9: after setup_branch_points the branches are in nondecreasing order of
\* bracket_index and, within one bracket, in increasing order of offset.
C9_StableBranchOrder ==
  BranchesResolved =>
    \A i \in 0..(info.num_branches - 1) : \A j \in 0..(info.num_branches - 1) :
      i < j =>
        /\ Arr(info.branches, i).bracket_index <= Arr(info.branches, j).bracket_index
        /\ Arr(info.branches, i).bracket_index = Arr(info.branches, j).bracket_index
             => Arr(info.branches, i).schlong < Arr(info.branches, j).schlong

(***************************************************************************)
(* C3.  As claimed: syntax errors are reported whatever the subject and    *)
(* before any matching: for a pattern (one that passes the analysis) that  *)
(* holds an invalid escape, or a quantifier where an atom is expected, and *)
(* a non-empty subject, the result is 0 and the reason is the one of a     *)
(* syntax error the pattern holds.                                         *)
(***************************************************************************)
Quantifiers == {"*", "+", "?"}

ValidEscaped == {"S", "s", "d", "+", "?", "*", "\\", "(", ")", "^", "$", ".", "[", "]"}

InvalidEscapes(p) == {i \in Unescaped(p, "\\") : ReAt(p, i + 1) \notin ValidEscaped}

\* A quantifier at the start of the pattern, of a group or of an alternative.
QuantifiersForAtom(p) ==
  {i \in AtomStarts(p, 0) :
     /\ ReAt(p, i) \in Quantifiers
     /\ i = 0 \/ (i - 1) \in (Unescaped(p, "(") \cup Unescaped(p, "|"))}

SyntaxReasons(p) ==
  (IF InvalidEscapes(p) # {} THEN {static_error_invalid_metacharacter} ELSE {})
    \cup (IF QuantifiersForAtom(p) # {} THEN {static_error_unexpected_quantifier} ELSE {})

\* C3, as claimed: a pattern with a syntax error and a non-empty subject give 0 and
\* the reason of a syntax error of the pattern, never a positive result or "No match".
C3_SyntaxErrorsWhateverTheSubject ==
  (pc = "done" /\ AnalysisPassed /\ Len(s) > 0 /\ SyntaxReasons(re) # {}) =>
    result = 0 /\ error_msg \in SyntaxReasons(re)

(***************************************************************************)
(* C3, amended.  The two errors are raised by the atom sequencer when it   *)
(* reaches the offending atom with subject bytes left.  For a pattern that *)
(* passes the analysis and has no "|" outside parentheses, and a non-empty *)
(* subject: if the pattern begins with an invalid escape that no           *)
(* quantifier follows, the result is 0 with "Invalid metacharacter"; if it *)
(* begins with a quantifier, the result is 0 with "Unexpected quantifier". *)
(***************************************************************************)
TopLevelBars(p) == {i \in Unescaped(p, "|") : Depth(p, i) = 0}

BeginsWithInvalidEscape(p) == 0 \in InvalidEscapes(p) /\ ReAt(p, 2) \notin Quantifiers

SyntaxErrorFirst ==
  /\ pc = "done"
  /\ AnalysisPassed
  /\ Len(s) > 0
  /\ TopLevelBars(re) = {}

\* C3, amended: a pattern without "|" outside parentheses that begins with an invalid
\* escape (no quantifier after it) or with a quantifier gives 0 and that reason.
C3_SyntaxErrorAtFirstAtom ==
  SyntaxErrorFirst =>
    /\ BeginsWithInvalidEscape(re) =>
         result = 0 /\ error_msg = static_error_invalid_metacharacter
    /\ ReAt(re, 0) \in Quantifiers =>
         result = 0 /\ error_msg = static_error_unexpected_quantifier

\* C3, witness: a pattern of more than one atom that begins with an invalid escape,
\* tried and rejected at every anchor of a subject of at least two bytes.
C3_Witness ==
  /\ SyntaxErrorFirst
  /\ BeginsWithInvalidEscape(re)
  /\ Len(re) > 2
  /\ Len(s) > 1
  /\ anchor = Len(s)
  /\ result = 0
  /\ error_msg = static_error_invalid_metacharacter

(***************************************************************************)
(* The reference for C4 and C7: patterns X q T with X one plain atom (a    *)
(* literal byte or "."), q one of "+", "*", "+?", "*?", and T a simple     *)
(* tail: plain atoms, each with an optional "?", and an optional last "$". *)
(* TailEnds is where T can end in the subject when it starts at pos.       *)
(***************************************************************************)
Plain(c) == c \notin {"(", ")", "|", "+", "*", "?", "^", "$", "\\", NUL}

AtomMatches(x, c) == x = "." \/ x = c

RECURSIVE SimpleTail(_, _)
SimpleTail(p, t) ==
  IF t >= Len(p) THEN TRUE
  ELSE IF ReAt(p, t) = "$" THEN t = Len(p) - 1
  ELSE Plain(ReAt(p, t)) /\ SimpleTail(p, t + (IF ReAt(p, t + 1) = "?" THEN 2 ELSE 1))

RECURSIVE TailEnds(_, _, _, _)
TailEnds(p, subj, t, pos) ==
  IF t >= Len(p) THEN {pos}
  ELSE IF ReAt(p, t) = "$" THEN (IF pos = Len(subj) THEN {pos} ELSE {})
  ELSE
    LET opt == ReAt(p, t + 1) = "?"
        next == t + (IF opt THEN 2 ELSE 1)
    IN (IF pos < Len(subj) /\ AtomMatches(ReAt(p, t), SAt(subj, pos))
        THEN TailEnds(p, subj, next, pos + 1) ELSE {})
       \cup (IF opt THEN TailEnds(p, subj, next, pos) ELSE {})

NonGreedy(p) == ReAt(p, 2) = "?"
TailStart(p) == IF NonGreedy(p) THEN 3 ELSE 2

QuantShape(p, q) ==
  /\ Len(p) >= 2
  /\ Plain(ReAt(p, 0))
  /\ ReAt(p, 1) \in q
  /\ SimpleTail(p, TailStart(p))

\* The repetition counts k >= 1 for which X^k followed by T matches at offset a.
Reps(p, subj, a) ==
  {k \in 1..(Len(subj) - a) :
     /\ \A q \in a..(a + k - 1) : AtomMatches(ReAt(p, 0), SAt(subj, q))
     /\ TailEnds(p, subj, TailStart(p), a + k) # {}}

Max(S) == CHOOSE x \in S : \A y \in S : y <= x
Min(S) == CHOOSE x \in S : \A y \in S : x <= y

(***************************************************************************)
(* C4.  For X+T and X*T the sequencer returns the match with the largest   *)
(* repetition count k >= 1 for which X^k followed by T matches at the      *)
(* position, for X+?T and X*?T the one with the smallest; also for a tail  *)
(* T that can match the empty string.                                      *)
(***************************************************************************)
\* C4: at every anchor tried, X+T and X*T return the match with the largest k >= 1
\* for which X^k T matches there, X+?T and X*?T the one with the smallest.
C4_GreedyLongestLazyShortest ==
  QuantShape(re, {"+", "*"}) =>
    \A i \in DOMAIN attempts :
      LET a == attempts[i].at
          n == attempts[i].n
          K == Reps(re, s, a)
          k == IF NonGreedy(re) THEN Min(K) ELSE Max(K)
      IN K # {} => n > 0 /\ (a + n) \in TailEnds(re, s, TailStart(re), a + k)

(***************************************************************************)
(* C7.  For X*T, where X matches zero times at the position and T matches  *)
(* there (a match of at least one byte, so that it shows in the result),   *)
(* the attempt succeeds with a match of T.                                 *)
(***************************************************************************)
\* C7: at every anchor tried where X matches zero times and T matches, X*T succeeds
\* with a match of T.
C7_StarAcceptsEmptyRepetition ==
  QuantShape(re, {"*"}) =>
    \A i \in DOMAIN attempts :
      LET a == attempts[i].at
          n == attempts[i].n
          ends == TailEnds(re, s, TailStart(re), a)
      IN (~AtomMatches(ReAt(re, 0), SAt(s, a)) /\ \E e \in ends : e > a) =>
           n > 0 /\ (a + n) \in ends

(***************************************************************************)
(* C10.  doh returns the result of the last alternative tried: for a       *)
(* pattern A|B with "|" outside parentheses, the result at each anchor is  *)
(* the result of matching B alone at that anchor.                          *)
(***************************************************************************)
LastAlternative(p) == SubSeq(p, Max(TopLevelBars(p)) + 2, Len(p))

\* What doh returns for bracket 0 of pattern p alone, at anchor a of subj.
MatchAlone(p, subj, a) ==
  LET r == analyze(p, InfoInit)
      m == [re |-> p, s |-> subj, info |-> setup_branch_points(r.info), caps_given |-> FALSE]
      st == [caps |-> <<>>, error_msg |-> r.info.error_msg, dispatched |-> {}]
  IN IF r.ok THEN doh(m, a, Len(subj) - a, st, 0).n ELSE 0

\* C10: for A|B the result at every anchor tried is the result of B alone there.
C10_LastAlternativeDecides ==
  \A i \in DOMAIN attempts :
    TopLevelBars(re) # {} =>
      attempts[i].n = MatchAlone(LastAlternative(re), s, attempts[i].at)

====
